---- MODULE Spec2Model ----
(***************************************************************************)
(* Model of the game-state update loop of src/components/SnakeGame.tsx:    *)
(* the React state of the SnakeGame component, the tick callback           *)
(* (moveSnake), the key handler (handleKeyPress) and the three buttons     *)
(* (START GAME, PLAY AGAIN, EXIT).  Every handler runs to completion and   *)
(* the component re-renders before the next event is delivered, so each    *)
(* handler is one atomic action that reads the current state.              *)
(***************************************************************************)
EXTENDS Integers, Sequences, FiniteSets, TLC

\* ---------------------------------------------------------------- constants
GRID_SIZE == 15
INITIAL_SPEED == 150
SPEED_INCREASE == 5
MIN_SPEED == 50

\* ------------------------------------------------------------------- bounds
\* Ticks delivered in Running per session.
MaxTicks == 6
\* Placement events (initGame calls and food-eating ticks) per behaviour.
MaxPlacements == 3
\* Outcomes of the Math.random sequence considered for each placement event.
RandChoices == 2
\* Score from which the player of the lap may let go of the keyboard.
ReleaseScore == 1700

VARIABLES
    snake,          \* useState<Position[]>, head at index 1
    food,           \* useState<Position>
    direction,      \* useState<Direction>
    gameOver,       \* useState(false)
    score,          \* useState(0)
    highScore,      \* useState(0)
    isPaused,       \* useState(false)
    gameStarted,    \* useState(false)
    speed,          \* useState(INITIAL_SPEED)
    obstacles,      \* useState<Obstacle[]>
    directionRef,   \* useRef(direction)
    obstacleIdRef,  \* useRef(0)
    lastHeading,    \* history: heading applied by the latest moving tick of the session
    ticks,          \* bookkeeping for MaxTicks
    placements,     \* bookkeeping for MaxPlacements
    player          \* who is at the keyboard: "free" (any key or button at any
                    \* time, within MaxTicks and MaxPlacements), "lap" (a
                    \* player steering around the Lap) or "released" (nobody:
                    \* only the timer fires)

vars == <<snake, food, direction, gameOver, score, highScore, isPaused,
          gameStarted, speed, obstacles, directionRef, obstacleIdRef,
          lastHeading, ticks, placements, player>>

\* -------------------------------------------------------------------- types
Pos(px, py) == [x |-> px, y |-> py]

Direction == {"UP", "DOWN", "LEFT", "RIGHT"}

logos == <<"acmLogo", "googleLogo">>

Max(a, b) == IF a > b THEN a ELSE b
Min(a, b) == IF a < b THEN a ELSE b

Cells(positions) == {positions[i] : i \in 1..Len(positions)}

ObstacleCells(obs) == {obs[i].position : i \in 1..Len(obs)}

InBounds(p) == p.x >= 0 /\ p.x < GRID_SIZE /\ p.y >= 0 /\ p.y < GRID_SIZE

\* ------------------------------------------------------ placement generator
\* Mutant of getSnakeBufferZone: radius 0, the snake cells alone.
getSnakeBufferZoneRadius0(snakePositions) == Cells(snakePositions)

getSnakeBufferZone(snakePositions) ==
    { bufferPos \in { Pos(pos.x + dx, pos.y + dy) :
                        pos \in Cells(snakePositions), dx \in -1..1, dy \in -1..1 } :
        InBounds(bufferPos) }

\* The cells Math.random can produce, in the fixed order in which the model
\* considers them: nearest to the starting cell (10,10) first, row-major among
\* cells at the same distance.
Abs(n) == IF n < 0 THEN -n ELSE n
DrawRank(p) == (Abs(p.x - 10) + Abs(p.y - 10)) * GRID_SIZE * GRID_SIZE + p.y * GRID_SIZE + p.x
RandomCells ==
    SortSeq([i \in 1..(GRID_SIZE * GRID_SIZE) |->
                Pos((i - 1) % GRID_SIZE, (i - 1) \div GRID_SIZE)],
            LAMBDA a, b : DrawRank(a) < DrawRank(b))

\* The outcomes of the Math.random sequence considered for one placement
\* event: under a stream every rejection-sampling loop of the event ends on
\* the nth cell that is not excluded, in the order of the stream's cells.
RandomStreams == {[cells |-> RandomCells, nth |-> n] : n \in 1..RandChoices}

\* A closed tour of the board through every cell but (0,14), passing the
\* starting cell (10,10) to the right: rows 0..12 back and forth over columns
\* 1..14, rows 13 and 14 in a comb back to column 1, and column 0 upwards.
LapLength == GRID_SIZE * GRID_SIZE - 1

\* The place of a cell on the lap, counted from (1,0); (0,14) is given the
\* place before (0,13).
LapIndex(p) ==
    IF p.x = 0 THEN 210 + (13 - p.y)
    ELSE IF p.y <= 12 THEN
        14 * p.y + (IF p.y % 2 = 0 THEN p.x - 1 ELSE 14 - p.x)
    ELSE 182 + 2 * (14 - p.x) + (IF (p.x % 2 = 0) = (p.y = 13) THEN 0 ELSE 1)

LapCell(i) ==
    IF i >= 210 THEN Pos(0, 13 - (i - 210))
    ELSE IF i < 182 THEN
        LET py == i \div 14
            k == i % 14
        IN Pos(IF py % 2 = 0 THEN k + 1 ELSE 14 - k, py)
    ELSE LET px == 14 - ((i - 182) \div 2)
             first == (i - 182) % 2 = 0
         IN Pos(px, IF (px % 2 = 0) = first THEN 13 ELSE 14)

LapNext(p) == LapCell((LapIndex(p) + 1) % LapLength)

\* The cells of the board in the order of the lap, from the cell after head.
LapFrom(head) ==
    [k \in 1..LapLength |-> LapCell((LapIndex(head) + k) % LapLength)]
        \o <<Pos(0, 14)>>

\* The outcome of the Math.random sequence considered when the lap is played:
\* every rejection-sampling loop ends on the first cell ahead of the head on
\* the lap that is not excluded.
LapStream(head) == [cells |-> LapFrom(head), nth |-> 1]

\* The streams considered for a placement event with the snake's head at head.
Streams(head) == IF player = "free" THEN RandomStreams ELSE {LapStream(head)}

\* The places in cells of the cells that are not excluded.
FreeIndexes(cells, excludePositions) ==
    {i \in 1..Len(cells) : cells[i] \notin excludePositions}

\* The n-th cell of cells whose place is in free, as a set: empty when free
\* holds fewer than n places.
RECURSIVE Accepted(_, _, _)
Accepted(cells, free, n) ==
    IF free = {} THEN {}
    ELSE LET first == CHOOSE i \in free : \A j \in free : i <= j IN
         IF n = 1 THEN {cells[first]}
         ELSE Accepted(cells, free \ {first}, n - 1)

\* The position the rejection-sampling loop returns under a stream, as a set:
\* empty when the stream holds no cell that is not excluded (the loop never
\* ends).
generateRandomPosition(excludePositions, stream) ==
    UNION { Accepted(stream.cells, free, stream.nth) :
              free \in {FreeIndexes(stream.cells, exclude) :
                           exclude \in {excludePositions}} }

RECURSIVE PlaceObstacles(_, _, _, _, _, _)
PlaceObstacles(i, count, excludePositions, newObstacles, firstId, stream) ==
    IF i >= count THEN {newObstacles}
    ELSE UNION { PlaceObstacles(i + 1, count, excludePositions,
                                Append(newObstacles,
                                       [position |-> position,
                                        logo |-> logos[(i % Len(logos)) + 1],
                                        id |-> firstId + i]),
                                firstId, stream) :
                 position \in generateRandomPosition(
                                 excludePositions \cup ObstacleCells(newObstacles),
                                 stream) }

\* Mutant of generateObstacles: the food cell is not excluded.
generateObstaclesOnFood(count, snakePositions, foodPosition, firstId, stream) ==
    PlaceObstacles(0, count,
                   Cells(snakePositions) \cup getSnakeBufferZone(snakePositions),
                   <<>>, firstId, stream)

\* The obstacle lists generateObstacles can return; it advances obstacleIdRef by count.
generateObstacles(count, snakePositions, foodPosition, firstId, stream) ==
    PlaceObstacles(0, count,
                   Cells(snakePositions) \cup getSnakeBufferZone(snakePositions)
                       \cup {foodPosition},
                   <<>>, firstId, stream)

\* -------------------------------------------------------------- tick engine
NewHead(head, currentDirection) ==
    CASE currentDirection = "UP"    -> Pos(head.x, head.y - 1)
      [] currentDirection = "DOWN"  -> Pos(head.x, head.y + 1)
      [] currentDirection = "LEFT"  -> Pos(head.x - 1, head.y)
      [] currentDirection = "RIGHT" -> Pos(head.x + 1, head.y)

\* Mutant of Collides: the self-collision check is missing.
CollidesIgnoringSelf(head, prevSnake, obs) ==
    \/ ~InBounds(head)
    \/ head \in ObstacleCells(obs)

\* Mutant of Collides: the wall check is missing.
CollidesIgnoringWalls(head, prevSnake, obs) ==
    \/ head \in Cells(prevSnake)
    \/ head \in ObstacleCells(obs)

\* Mutant of Collides: the obstacle check is missing.
CollidesIgnoringObstacles(head, prevSnake, obs) ==
    \/ ~InBounds(head)
    \/ head \in Cells(prevSnake)

\* Mutant of Collides: the tail cell, which the move is about to vacate, is
\* not counted as part of the snake.
CollidesIgnoringTail(head, prevSnake, obs) ==
    \/ ~InBounds(head)
    \/ head \in Cells(SubSeq(prevSnake, 1, Len(prevSnake) - 1))
    \/ head \in ObstacleCells(obs)

Collides(head, prevSnake, obs) ==
    \/ ~InBounds(head)
    \/ head \in Cells(prevSnake)
    \/ head \in ObstacleCells(obs)

\* Mutant of NextHighScore: the final score always replaces the best score.
NextHighScoreOverwrites(s, best) == s

NextHighScore(s, best) == IF s > best THEN s ELSE best

\* Mutant of NextSpeed: no floor.
NextSpeedNoFloor(prev) == prev - SPEED_INCREASE

NextSpeed(prev) == Max(MIN_SPEED, prev - SPEED_INCREASE)

\* Mutant of ObstacleCount: computed from the score before the food is counted.
ObstacleCountStale(s) == Min(3 + (s \div 50), 8)

ObstacleCount(s) == Min(3 + ((s + 10) \div 50), 8)

NextScore(prev) == prev + 10

\* Mutant of EatsFood: only the column is compared.
EatsFoodSameColumn(head, foodPosition) == head.x = foodPosition.x

EatsFood(head, foodPosition) == head.x = foodPosition.x /\ head.y = foodPosition.y

\* The component as mounted.
Mounted ==
    /\ snake = <<Pos(10, 10)>>
    /\ food = Pos(5, 5)
    /\ direction = "RIGHT"
    /\ gameOver = FALSE
    /\ score = 0
    /\ highScore = 0
    /\ isPaused = FALSE
    /\ gameStarted = FALSE
    /\ speed = INITIAL_SPEED
    /\ obstacles = <<>>
    /\ directionRef = "RIGHT"
    /\ obstacleIdRef = 0
    /\ lastHeading = "NONE"
    /\ ticks = 0
    /\ placements = 0

Init == Mounted /\ player = "free"

\* MaxTicks and MaxPlacements bound the free play only.
Bounded == player = "free"

initGame ==
    LET initialSnake == <<Pos(10, 10)>> IN
    /\ Bounded => placements < MaxPlacements
    /\ snake' = initialSnake
    /\ direction' = "RIGHT"
    /\ directionRef' = "RIGHT"
    /\ gameOver' = FALSE
    /\ score' = 0
    /\ speed' = INITIAL_SPEED
    /\ \E stream \in Streams(initialSnake[1]) :
          \E newFood \in generateRandomPosition(
                            Cells(initialSnake) \cup getSnakeBufferZone(initialSnake),
                            stream) :
             /\ food' = newFood
             /\ obstacles' \in generateObstacles(3, initialSnake, newFood,
                                                 obstacleIdRef, stream)
    /\ obstacleIdRef' = obstacleIdRef + 3
    /\ lastHeading' = "NONE"
    /\ ticks' = 0
    /\ placements' = placements + 1
    /\ UNCHANGED player

\* START GAME button (rendered while not started)
startGame ==
    /\ ~gameStarted
    /\ gameStarted' = TRUE
    /\ initGame
    /\ UNCHANGED <<highScore, isPaused>>

\* Mutant of PlayAgain: the restart also clears the best score.
PlayAgainClearsBest ==
    /\ gameOver
    /\ initGame
    /\ highScore' = 0
    /\ UNCHANGED <<isPaused, gameStarted>>

\* PLAY AGAIN button (rendered while gameOver)
PlayAgain ==
    /\ gameOver
    /\ initGame
    /\ UNCHANGED <<highScore, isPaused, gameStarted>>

\* Mutant of Exit: gameOver is not cleared.
ExitStaysOver ==
    /\ gameOver
    /\ gameStarted' = FALSE
    /\ UNCHANGED <<snake, food, direction, gameOver, score, highScore, isPaused,
                   speed, obstacles, directionRef, obstacleIdRef, lastHeading,
                   ticks, placements, player>>

\* EXIT button (rendered while gameOver)
Exit ==
    /\ gameOver
    /\ gameOver' = FALSE
    /\ gameStarted' = FALSE
    /\ UNCHANGED <<snake, food, direction, score, highScore, isPaused, speed,
                   obstacles, directionRef, obstacleIdRef, lastHeading, ticks,
                   placements, player>>

\* Mutant of pop: the first element is removed (shift), not the last.
shift(newSnake) == Tail(newSnake)

\* Array.prototype.pop as moveSnake uses it: the list without its last element.
pop(newSnake) == SubSeq(newSnake, 1, Len(newSnake) - 1)

\* Mutant of TickIgnored: a pause does not stop the ticks.
TickIgnoredUnlessPaused == gameOver \/ ~gameStarted

\* The guard of moveSnake: a tick outside Running returns at once.
TickIgnored == gameOver \/ isPaused \/ ~gameStarted

\* One firing of the interval timer.
moveSnake ==
    IF TickIgnored THEN UNCHANGED vars
    ELSE
    LET prevSnake == snake
        currentDirection == directionRef
        head == NewHead(prevSnake[1], currentDirection)
        newSnake == <<head>> \o prevSnake
    IN
    /\ Bounded => ticks < MaxTicks
    /\ ticks' = ticks + 1
    /\ IF Collides(head, prevSnake, obstacles) THEN
          /\ gameOver' = TRUE
          /\ highScore' = NextHighScore(score, highScore)
          /\ UNCHANGED <<snake, food, direction, score, isPaused, gameStarted,
                         speed, obstacles, directionRef, obstacleIdRef,
                         lastHeading, placements, player>>
       ELSE IF EatsFood(head, food) THEN
          LET obstacleCount == ObstacleCount(score) IN
          /\ Bounded => placements < MaxPlacements
          /\ placements' = placements + 1
          /\ score' = NextScore(score)
          /\ speed' = NextSpeed(speed)
          /\ \E stream \in Streams(head) :
                \E newFood \in generateRandomPosition(
                                  Cells(newSnake) \cup getSnakeBufferZone(newSnake),
                                  stream) :
                   /\ food' = newFood
                   /\ obstacles' \in generateObstacles(obstacleCount, newSnake,
                                                       newFood, obstacleIdRef, stream)
          /\ obstacleIdRef' = obstacleIdRef + obstacleCount
          /\ snake' = newSnake
          /\ lastHeading' = currentDirection
          /\ UNCHANGED <<direction, gameOver, highScore, isPaused, gameStarted,
                         directionRef, player>>
       ELSE
          /\ snake' = pop(newSnake)
          /\ lastHeading' = currentDirection
          /\ UNCHANGED <<food, direction, gameOver, score, highScore, isPaused,
                         gameStarted, speed, obstacles, directionRef,
                         obstacleIdRef, placements, player>>

\* ---------------------------------------------------------- input controller
Keys == {"ArrowUp", "w", "W", "ArrowDown", "s", "S", "ArrowLeft", "a", "A",
         "ArrowRight", "d", "D", " ", "Enter"}

\* Mutant of KeyDirection: the reverse of the current heading is accepted too.
KeyDirectionAnyTurn(key, currentDir) ==
    CASE key \in {"ArrowUp", "w", "W"} -> "UP"
      [] key \in {"ArrowDown", "s", "S"} -> "DOWN"
      [] key \in {"ArrowLeft", "a", "A"} -> "LEFT"
      [] key \in {"ArrowRight", "d", "D"} -> "RIGHT"
      [] OTHER -> "null"

\* The switch of handleKeyPress: the heading a key commits, or "null".
KeyDirection(key, currentDir) ==
    CASE key \in {"ArrowUp", "w", "W"} ->
            IF currentDir # "DOWN" THEN "UP" ELSE "null"
      [] key \in {"ArrowDown", "s", "S"} ->
            IF currentDir # "UP" THEN "DOWN" ELSE "null"
      [] key \in {"ArrowLeft", "a", "A"} ->
            IF currentDir # "RIGHT" THEN "LEFT" ELSE "null"
      [] key \in {"ArrowRight", "d", "D"} ->
            IF currentDir # "LEFT" THEN "RIGHT" ELSE "null"
      [] OTHER -> "null"

\* Mutant of KeysIgnored: keys are handled before the start too.
KeysNeverIgnored == FALSE

\* The first guard of handleKeyPress: no key is handled before the start.
KeysIgnored == ~gameStarted

\* Mutant of MovementIgnored: movement keys are handled while paused.
MovementIgnoredUnlessPaused == gameOver

\* The second guard of handleKeyPress: only the space key is handled while
\* the session is over or paused.
MovementIgnored == gameOver \/ isPaused

handleKeyPress(key) ==
    IF KeysIgnored THEN UNCHANGED vars
    ELSE IF key = " " THEN
        IF gameOver
        THEN initGame /\ UNCHANGED <<highScore, isPaused, gameStarted>>
        ELSE /\ isPaused' = ~isPaused
             /\ UNCHANGED <<snake, food, direction, gameOver, score, highScore,
                            gameStarted, speed, obstacles, directionRef,
                            obstacleIdRef, lastHeading, ticks, placements,
                            player>>
    ELSE IF MovementIgnored THEN UNCHANGED vars
    ELSE LET newDirection == KeyDirection(key, directionRef) IN
        IF newDirection # "null"
        THEN /\ directionRef' = newDirection
             /\ direction' = newDirection
             /\ UNCHANGED <<snake, food, gameOver, score, highScore, isPaused,
                            gameStarted, speed, obstacles, obstacleIdRef,
                            lastHeading, ticks, placements, player>>
        ELSE UNCHANGED vars

KeyDown == \E key \in Keys : handleKeyPress(key)

Next ==
    \/ startGame
    \/ PlayAgain
    \/ Exit
    \/ moveSnake
    \/ KeyDown

Spec == Init /\ [][Next]_vars

\* ------------------------------------------------------------- late sessions
\* States deep in a first session, taken right after the tick that ate the
\* food at (12,9) while heading DOWN: the body trails up column 12, down
\* column 13 and up column 14, the cells the head last visited.  Score, speed,
\* obstacle count and ids are what initGame followed by that many food-eating
\* ticks leave; food and obstacles are what that last tick placed.
LatePath ==
    [i \in 1..40 |->
        IF i <= 10 THEN Pos(12, 10 - i)
        ELSE IF i <= 25 THEN Pos(13, i - 11)
        ELSE Pos(14, 40 - i)]

LateLengths == {10, 31}

RECURSIVE SpeedAfter(_)
SpeedAfter(eaten) ==
    IF eaten = 0 THEN INITIAL_SPEED ELSE NextSpeed(SpeedAfter(eaten - 1))

RECURSIVE ScoreAfter(_)
ScoreAfter(eaten) ==
    IF eaten = 0 THEN 0 ELSE NextScore(ScoreAfter(eaten - 1))

RECURSIVE IdsAfter(_)
IdsAfter(eaten) ==
    IF eaten = 0 THEN 3
    ELSE IdsAfter(eaten - 1) + ObstacleCount(ScoreAfter(eaten - 1))

InitLate ==
    \E length \in LateLengths :
        LET newSnake == SubSeq(LatePath, 1, length)
            eaten == length - 1
            obstacleCount == ObstacleCount(ScoreAfter(eaten - 1))
        IN
        /\ snake = newSnake
        /\ direction = "DOWN"
        /\ directionRef = "DOWN"
        /\ gameOver = FALSE
        /\ score = ScoreAfter(eaten)
        /\ highScore = 0
        /\ isPaused = FALSE
        /\ gameStarted = TRUE
        /\ speed = SpeedAfter(eaten)
        /\ \E stream \in RandomStreams :
              \E newFood \in generateRandomPosition(
                                Cells(newSnake) \cup getSnakeBufferZone(newSnake),
                                stream) :
                 /\ food = newFood
                 /\ obstacles \in generateObstacles(obstacleCount, newSnake, newFood,
                                                    IdsAfter(eaten - 1), stream)
        /\ obstacleIdRef = IdsAfter(eaten)
        /\ lastHeading = "DOWN"
        /\ ticks = 0
        /\ placements = 0
        /\ player = "free"

SpecLate == (Init \/ InitLate) /\ [][Next]_vars

\* ---------------------------------------------------------------- lap play
\* One long first session: the player steers the snake around the lap, one
\* key before each tick that has to turn, and every placement puts the food
\* on the first free cell of the lap ahead of the head, the obstacles on the
\* free cells after it.  Late in the session (from ReleaseScore on) the player
\* may let go of the keyboard for good; from then on only the timer fires.
LapHeading(head) == CHOOSE d \in Direction : NewHead(head, d) = LapNext(head)

ArrowKey(d) ==
    CASE d = "UP" -> "ArrowUp" [] d = "DOWN" -> "ArrowDown"
      [] d = "LEFT" -> "ArrowLeft" [] d = "RIGHT" -> "ArrowRight"

Steer ==
    /\ player = "lap"
    /\ ~TickIgnored
    /\ directionRef # LapHeading(snake[1])
    /\ handleKeyPress(ArrowKey(LapHeading(snake[1])))

LapTick ==
    /\ player = "lap"
    /\ ~TickIgnored
    /\ directionRef = LapHeading(snake[1])
    /\ moveSnake

Release ==
    /\ player = "lap"
    /\ ~TickIgnored
    /\ score >= ReleaseScore
    /\ player' = "released"
    /\ UNCHANGED <<snake, food, direction, gameOver, score, highScore, isPaused,
                   gameStarted, speed, obstacles, directionRef, obstacleIdRef,
                   lastHeading, ticks, placements>>

ReleasedTick ==
    /\ player = "released"
    /\ ~TickIgnored
    /\ moveSnake

InitLap == Mounted /\ player = "lap"

NextLap ==
    \/ startGame
    \/ Steer
    \/ LapTick
    \/ Release
    \/ ReleasedTick

\* Once the player has let go the timer keeps firing (setInterval): a tick
\* that can complete does.
SpecLap == InitLap /\ [][NextLap]_vars /\ WF_vars(ReleasedTick)

\* ------------------------------------------------------------------- claims
Opposite(d) ==
    CASE d = "UP" -> "DOWN" [] d = "DOWN" -> "UP"
      [] d = "LEFT" -> "RIGHT" [] d = "RIGHT" -> "LEFT" [] OTHER -> "NONE"

SessionState ==
    IF ~gameStarted THEN "Idle"
    ELSE IF gameOver THEN "Over"
    ELSE IF isPaused THEN "Paused"
    ELSE "Running"

\* A step that is a tick delivered in Running.
RunningTick == SessionState = "Running" /\ ticks' = ticks + 1

\* A step that places food and obstacles (it consumes obstacle ids).
PlacementEvent == obstacleIdRef' # obstacleIdRef

ChebyshevDistance(p, q) == Max(Abs(p.x - q.x), Abs(p.y - q.y))

\* C1: for every pair of consecutive moving ticks of a session the heading
\* applied by the later one is never the opposite of the heading applied by
\* the earlier one, and no tick of a snake of length >= 2 steps the head onto
\* the snake's second segment.
C1_NoReversal ==
    [][RunningTick =>
          /\ (snake' # snake /\ lastHeading # "NONE")
                => lastHeading' # Opposite(lastHeading)
          /\ Len(snake) >= 2 => NewHead(snake[1], directionRef) # snake[2]]_vars

\* C2: in every reachable state the snake is a non-empty sequence of
\* pairwise different cells.
C2_SnakeCellsDistinct ==
    /\ Len(snake) >= 1
    /\ \A i, j \in 1..Len(snake) : i # j => snake[i] # snake[j]

\* C2 witness: a snake of length >= 2 whose tick onto one of its own cells
\* ended the session.
C2_Witness ==
    /\ SessionState = "Over"
    /\ Len(snake) >= 2
    /\ NewHead(snake[1], directionRef) \in Cells(snake)

\* C3: the snake length is score/10 + 1 in every reachable state; a tick
\* changes the length by 0 or by +1, and by +1 exactly when it is a tick in
\* Running whose new head is the food cell, and then the score rises by 10.
C3_LengthTracksScore ==
    /\ [](score % 10 = 0 /\ Len(snake) = (score \div 10) + 1)
    /\ [][moveSnake =>
            LET grows == /\ SessionState = "Running"
                         /\ NewHead(snake[1], directionRef) = food
            IN /\ Len(snake') - Len(snake) \in {0, 1}
               /\ Len(snake') = Len(snake) + 1 <=> grows
               /\ grows => score' = score + 10
               /\ ~grows => score' = score]_vars

\* C3 witness: the second food of a session has been eaten.
C3_Witness ==
    /\ Len(snake) = 3
    /\ score = 20

\* C4: in every reachable state the food cell is no snake cell and no
\* obstacle cell.
C4_FoodIsFree ==
    /\ food \notin Cells(snake)
    /\ food \notin ObstacleCells(obstacles)

\* C4 witness: food has been eaten and replaced, and the grown snake has
\* moved since.
C4_Witness ==
    /\ SessionState = "Running"
    /\ score = 10
    /\ ticks >= 4

\* C5: right after every placement event the food cell and the obstacle
\* cells are pairwise different and none is within Chebyshev distance 1 of a
\* cell of the new snake.
C5_PlacementIsClear ==
    [][PlacementEvent =>
          LET placed == {food'} \cup ObstacleCells(obstacles') IN
          /\ Cardinality(placed) = Len(obstacles') + 1
          /\ \A c \in placed : \A seg \in Cells(snake') :
                ChebyshevDistance(c, seg) >= 2]_vars

\* C5 witness: the state right after the second food of a session is eaten.
C5_Witness ==
    /\ score = 20
    /\ \A c \in {food} \cup ObstacleCells(obstacles) : \A seg \in Cells(snake) :
          ChebyshevDistance(c, seg) >= 2
    /\ NewHead(snake[2], lastHeading) = snake[1]

\* C6: once a session has been started the number of obstacles is
\* min(3 + floor(score/50), 8).
C6_ObstacleCount ==
    (gameStarted \/ obstacleIdRef > 0) => Len(obstacles) = Min(3 + (score \div 50), 8)

\* C6 witness: a score at which 3 + floor(score/50) exceeds the cap.
C6_Witness ==
    /\ gameStarted
    /\ score = 310
    /\ Len(obstacles) = 8

\* C7: in every reachable state speed = max(50, 150 - 5 * (score/10)), never
\* below 50; a food-eating tick lowers it by 5, or leaves it at 50.
C7_SpeedFromScore ==
    /\ [](speed = Max(50, 150 - 5 * (score \div 10)) /\ speed >= 50)
    /\ [][score' = score + 10 =>
             /\ speed' <= speed
             /\ speed' = (IF speed - 5 >= 50 THEN speed - 5 ELSE 50)]_vars

\* C7 witness: food eaten while the speed already was at the floor.
C7_Witness ==
    /\ score = 310
    /\ speed = 50

\* C8: bestScore never decreases; it changes only on the tick that ends the
\* session, where it becomes max(bestScore, score); in every Over state it is
\* at least the score.
C8_BestScore ==
    /\ [](SessionState = "Over" => highScore >= score)
    /\ [][/\ highScore' >= highScore
          /\ highScore' # highScore =>
                /\ RunningTick
                /\ SessionState' = "Over"
                /\ highScore' = Max(highScore, score)]_vars

\* C8 witness: a session that ended below the best score of an earlier one.
C8_Witness ==
    /\ SessionState = "Over"
    /\ highScore = 10
    /\ score = 0

\* C9: the session state changes only from Idle to Running (start), between
\* Running and Paused (space key), from Running to Over (tick), from Over to
\* Running (restart button or space key) and from Over to Idle (exit).
C9_Transitions ==
    [][SessionState' # SessionState =>
          \/ /\ SessionState = "Idle" /\ SessionState' = "Running"
             /\ startGame
          \/ /\ SessionState = "Running" /\ SessionState' = "Paused"
             /\ handleKeyPress(" ")
          \/ /\ SessionState = "Paused" /\ SessionState' = "Running"
             /\ handleKeyPress(" ")
          \/ /\ SessionState = "Running" /\ SessionState' = "Over"
             /\ moveSnake
          \/ /\ SessionState = "Over" /\ SessionState' = "Running"
             /\ PlayAgain \/ handleKeyPress(" ")
          \/ /\ SessionState = "Over" /\ SessionState' = "Idle"
             /\ Exit]_vars

\* C9 witness: a restarted session that ran and was then paused.
C9_Witness ==
    /\ SessionState = "Paused"
    /\ placements >= 2
    /\ ticks >= 1

\* C10: a tick in Running whose new head is out of bounds, on the snake or on
\* an obstacle sets gameOver and leaves snake, heading, food, obstacles, score
\* and speed as they were.
C10_DeathChangesNothing ==
    [][(/\ RunningTick
        /\ LET head == NewHead(snake[1], directionRef) IN
           \/ head.x < 0 \/ head.x >= 15 \/ head.y < 0 \/ head.y >= 15
           \/ \E i \in 1..Len(snake) : snake[i] = head
           \/ \E i \in 1..Len(obstacles) : obstacles[i].position = head)
       => /\ gameOver'
          /\ UNCHANGED <<snake, direction, directionRef, food, obstacles,
                         score, speed, isPaused, gameStarted>>]_vars

\* C10 witness: a session ended by a step out of bounds.
C10_Witness ==
    /\ SessionState = "Over"
    /\ ~InBounds(NewHead(snake[1], directionRef))

\* C11: a tick in Running whose new head is the cell of the current tail of a
\* snake of length >= 2 ends the session and leaves the snake as it was, also
\* when the new head is not the food, so that the move would have vacated the
\* tail cell.
C11_TailCollision ==
    [][(/\ RunningTick
        /\ Len(snake) >= 2
        /\ NewHead(snake[1], directionRef) = snake[Len(snake)])
       => /\ SessionState' = "Over"
          /\ snake' = snake]_vars

\* C11 witness: a session ended by a step onto the tail of a snake whose tail
\* is not its second segment, on a tick that would not have eaten.
C11_Witness ==
    /\ SessionState = "Over"
    /\ Len(snake) >= 4
    /\ NewHead(snake[1], directionRef) = snake[Len(snake)]
    /\ NewHead(snake[1], directionRef) # food

\* C12: a tick delivered in Idle, Paused or Over changes nothing, and while
\* the session is Paused no step changes anything but the pause flag.
C12_TickOutsideRunning ==
    /\ [][(SessionState # "Running" /\ moveSnake) => UNCHANGED vars]_vars
    /\ [][SessionState = "Paused" =>
             UNCHANGED <<snake, food, direction, directionRef, gameOver, score,
                         highScore, gameStarted, speed, obstacles,
                         obstacleIdRef>>]_vars

\* C12 witness: a session paused after the snake has eaten and moved, where
\* the timer goes on firing.
C12_Witness ==
    /\ SessionState = "Paused"
    /\ score = 10
    /\ ticks >= 3
    /\ ENABLED moveSnake

MovementKeys == Keys \ {" ", "Enter"}

\* The heading a movement key asks for.
Candidate(key) ==
    CASE key \in {"ArrowUp", "w", "W"} -> "UP"
      [] key \in {"ArrowDown", "s", "S"} -> "DOWN"
      [] key \in {"ArrowLeft", "a", "A"} -> "LEFT"
      [] key \in {"ArrowRight", "d", "D"} -> "RIGHT"

\* C13: in Running a movement key that asks for the exact reverse of the
\* current heading leaves the heading as it is, and any other movement key
\* can be handled and makes its heading the current one.
C13_ReverseKeyRejected ==
    /\ [](SessionState = "Running" =>
             \A key \in MovementKeys :
                Candidate(key) # Opposite(directionRef) =>
                   ENABLED (/\ handleKeyPress(key)
                            /\ directionRef' = Candidate(key)
                            /\ direction' = Candidate(key)))
    /\ [][\A key \in MovementKeys :
             (SessionState = "Running" /\ handleKeyPress(key)) =>
                IF Candidate(key) = Opposite(directionRef)
                THEN UNCHANGED <<directionRef, direction>>
                ELSE /\ directionRef' = Candidate(key)
                     /\ direction' = Candidate(key)]_vars

\* C13 witness: a turn committed by a key after the snake moved, not yet
\* applied by a tick; the reverse of the new heading is the next key.
C13_Witness ==
    /\ SessionState = "Running"
    /\ lastHeading = "RIGHT"
    /\ directionRef = "UP"
    /\ ENABLED handleKeyPress("ArrowDown")

\* C14: every start from Idle and every restart from Over leads to a Running
\* state with snake [(10,10)], heading RIGHT, score 0, speed 150, exactly 3
\* obstacles with new ids and food placed anew, clear of the snake and of
\* the obstacles; the best score is kept.
C14_FreshSession ==
    [][(\/ SessionState = "Idle" /\ startGame
        \/ SessionState = "Over" /\ (PlayAgain \/ handleKeyPress(" "))
        \/ SessionState \in {"Idle", "Over"} /\ SessionState' = "Running")
       => /\ SessionState' = "Running"
          /\ snake' = <<Pos(10, 10)>>
          /\ direction' = "RIGHT"
          /\ directionRef' = "RIGHT"
          /\ score' = 0
          /\ speed' = 150
          /\ Len(obstacles') = 3
          /\ \A i \in 1..3 : obstacles'[i].id = obstacleIdRef + i - 1
          /\ ChebyshevDistance(food', Pos(10, 10)) >= 2
          /\ food' \notin ObstacleCells(obstacles')
          /\ highScore' = highScore]_vars

\* C14 witness: a session restarted after one that had scored, not yet
\* ticked.
C14_Witness ==
    /\ SessionState = "Running"
    /\ snake = <<Pos(10, 10)>>
    /\ score = 0
    /\ highScore = 10
    /\ ticks = 0
    /\ placements >= 3

Board == {Pos(px, py) : px \in 0..14, py \in 0..14}

\* The cells a placement for the snake cells may use: in bounds and at
\* Chebyshev distance >= 2 from every snake cell.
FreeCells(snakeCells) ==
    {c \in Board : \A seg \in snakeCells : ChebyshevDistance(c, seg) >= 2}

\* C15: whenever a placement event is due (a start or restart, or a tick in
\* Running whose new head is the food and hits nothing) the board holds a
\* free cell for the food and for each obstacle in turn, so that no
\* rejection-sampling loop of the event runs forever.
C15_PlacementTerminates ==
    /\ SessionState \in {"Idle", "Over"} =>
          Cardinality(FreeCells({Pos(10, 10)})) >= 1 + 3
    /\ SessionState = "Running" =>
          LET head == NewHead(snake[1], directionRef) IN
          (/\ head = food
           /\ head \in Board
           /\ head \notin Cells(snake)
           /\ head \notin ObstacleCells(obstacles))
          => Cardinality(FreeCells(Cells(snake) \cup {head}))
                >= 1 + Min(3 + ((score + 10) \div 50), 8)

\* The cell is off the board, on the snake or on an obstacle.
Blocked(c) ==
    \/ c.x < 0 \/ c.x >= 15 \/ c.y < 0 \/ c.y >= 15
    \/ \E i \in 1..Len(snake) : snake[i] = c
    \/ \E i \in 1..Len(obstacles) : obstacles[i].position = c

\* C16: a tick in Running whose new head hits nothing and is not the food
\* puts the new head in front and drops the tail, and leaves food, obstacles
\* (cells, tags and ids), score, best score and speed as they were; food and
\* obstacles are replaced only by a food-eating tick and by a start or
\* restart.
C16_PlainMove ==
    /\ [][(/\ RunningTick
            /\ ~Blocked(NewHead(snake[1], directionRef))
            /\ NewHead(snake[1], directionRef) # food)
           => /\ snake' = <<NewHead(snake[1], directionRef)>>
                             \o SubSeq(snake, 1, Len(snake) - 1)
              /\ UNCHANGED <<food, obstacles, score, highScore, speed>>]_vars
    /\ [][(food' # food \/ obstacles' # obstacles)
           => \/ /\ RunningTick
                 /\ ~Blocked(NewHead(snake[1], directionRef))
                 /\ NewHead(snake[1], directionRef) = food
              \/ /\ SessionState \in {"Idle", "Over"}
                 /\ SessionState' = "Running"]_vars

\* C16 witness: a snake of two cells whose head is next to the food, which
\* no placement allows: it has made a plain move since it ate.
C16_Witness ==
    /\ SessionState = "Running"
    /\ Len(snake) = 2
    /\ ChebyshevDistance(food, snake[1]) = 1
    /\ NewHead(snake[2], lastHeading) = snake[1]

\* C17: in every reachable state every snake cell has both coordinates in
\* 0..14 and is the cell of no obstacle.
C17_SnakeOnFreeBoard ==
    \A i \in 1..Len(snake) :
        /\ snake[i].x \in 0..14
        /\ snake[i].y \in 0..14
        /\ \A j \in 1..Len(obstacles) : obstacles[j].position # snake[i]

\* C17 witness: a session ended by a step onto an obstacle, by a snake that
\* had grown.
C17_Witness ==
    /\ SessionState = "Over"
    /\ Len(snake) >= 2
    /\ \E j \in 1..Len(obstacles) :
          obstacles[j].position = NewHead(snake[1], directionRef)

\* C18: in every reachable state paused implies started and not over, and
\* over implies started; a step that leaves Over for a started session
\* leaves it not paused.
C18_FlagsConsistent ==
    /\ [](isPaused => (gameStarted /\ ~gameOver))
    /\ [](gameOver => gameStarted)
    /\ [][(gameOver /\ ~gameOver' /\ gameStarted') => ~isPaused']_vars

\* C18 witness: back in Idle after a session that was played, ended and
\* left through EXIT.
C18_Witness ==
    /\ SessionState = "Idle"
    /\ obstacleIdRef > 0
    /\ highScore >= 10
    /\ ~gameOver
    /\ ~isPaused

\* C19: a movement key handled in Idle, Paused or Over changes nothing; the
\* heading does not change while the session is Paused, so the snake resumes
\* in the heading it had, and in Idle and Over it changes only by the start
\* or restart that resets it to RIGHT.
C19_KeysOutsideRunning ==
    /\ [][\A key \in MovementKeys :
             (SessionState # "Running" /\ handleKeyPress(key))
                => UNCHANGED vars]_vars
    /\ [][SessionState = "Paused" => UNCHANGED <<directionRef, direction>>]_vars
    /\ [][(SessionState \in {"Idle", "Over"} /\ directionRef' # directionRef)
           => (SessionState' = "Running" /\ directionRef' = "RIGHT")]_vars

\* C19 witness: a session paused while the snake is heading UP, where a LEFT
\* key arrives.
C19_Witness ==
    /\ SessionState = "Paused"
    /\ directionRef = "UP"
    /\ lastHeading = "UP"
    /\ ENABLED handleKeyPress("ArrowLeft")

\* C20: from every Running state, once no key and no button is used any
\* more and the timer keeps firing, the session reaches Over.
C20_ReleasedSessionEnds ==
    (player = "released" /\ SessionState = "Running") ~> (SessionState = "Over")

====
